---- MODULE Spec2Model ----
(***************************************************************************)
(* Production-timeline server: the task dependency graph, the date         *)
(* propagation engine (utils/taskProgression.js), the attention tracker    *)
(* and the season lifecycle (season routes and the season controller).     *)
(*                                                                         *)
(* Timestamps are integers counting ticks; a calendar day holds            *)
(* TicksPerDay ticks, so two timestamps can fall on the same day and still *)
(* differ.  Null stands for JavaScript's null/undefined date.              *)
(*                                                                         *)
(* A request is a sequence of steps, one per await that reads or writes a  *)
(* persisted document.  The specifications run these steps over different *)
(* libraries and request bodies, one request at a time:                    *)
(*   Spec           season creation, task updates, status changes, edits   *)
(*   SpecDates      the date engine under varying lead times and dates     *)
(*   SpecUpdate     the task-update request under every caller and body    *)
(*   SpecFaults     the task-update request when a save() may reject       *)
(*   SpecTemplates  the template routes: create, update, toggle, delete    *)
(*   SpecLibrary    the template routes once a season was created          *)
(*   SpecDelete     the deletion of a season                               *)
(* Two specifications drop the one-at-a-time scheduling:                   *)
(*   SpecRace       two clients' task updates, interleaved at every await  *)
(*   SpecInterleave a task update with status changes between its awaits   *)
(***************************************************************************)
EXTENDS Integers, Sequences, FiniteSets, TLC

\* ------------------------------------------------------------------ bounds
TicksPerDay == 2
MaxTime == 2
MaxLeadTime == 2

\* --------------------------------------------------------------- constants
Null == -1
\* A request value that new Date() turns into an invalid date
InvalidDate == -2
IterationSlack == 5

Times == 0..MaxTime
TemplateDepartments == {"PD", "P&S", "AM", "QA", "Logistics", "Production", "IT"}
SeasonDepartments == {"PD", "P&S", "AM", "QA", "Logistics", "Production"}
SeasonStatuses == {"Open", "On-Hold", "Closed", "Canceled"}
NoRemarks == "undefined"

\* ----------------------------------------------------------- pure helpers
Range(s) == {s[i] : i \in 1..Len(s)}

\* moment(d).format('YYYY-MM-DD'): the calendar day of a timestamp
DayOf(t) == t \div TicksPerDay

\* A lead time added as ticks instead of days
AddTicks(t, days) == t + days

\* newEndDate.setDate(newStartDate.getDate() + leadTime)
AddDays(t, days) == t + days * TicksPerDay

\* new Map(tasks.map(t => [t.order, t])).get(order): the index of the last
\* entry carrying the order code, 0 when there is none
TasksMapGet(tasks, order) ==
  LET hits == {i \in 1..Len(tasks) : tasks[i].order = order}
  IN IF hits = {} THEN 0 ELSE CHOOSE i \in hits : \A j \in hits : j <= i

\* ------------------------------------------------- date propagation engine
\* The latest computed end among the preceding entries, in place of their
\* completion dates: an entry's dates then follow other computed dates
RECURSIVE LatestPredecessorEnd(_, _, _, _)
LatestPredecessorEnd(tasks, preds, k, latest) ==
  IF k > Len(preds)
  THEN [allPredecessorsComplete |-> TRUE, latest |-> latest]
  ELSE LET p == TasksMapGet(tasks, preds[k])
       IN IF p = 0 \/ tasks[p].end = Null
          THEN [allPredecessorsComplete |-> FALSE, latest |-> latest]
          ELSE LatestPredecessorEnd(tasks, preds, k + 1,
                 IF latest = Null \/ tasks[p].end > latest
                 THEN tasks[p].end ELSE latest)

\* The loop over task.precedingTasks (lines 40-53): the latest
\* actualCompletion among the predecessors, or not ready at the first
\* predecessor that is missing or has no actualCompletion.
RECURSIVE LatestPredecessorCompletion(_, _, _, _)
LatestPredecessorCompletion(tasks, preds, k, latest) ==
  IF k > Len(preds)
  THEN [allPredecessorsComplete |-> TRUE, latest |-> latest]
  ELSE LET p == TasksMapGet(tasks, preds[k])
       IN IF p = 0 \/ tasks[p].actualCompletion = Null
          THEN [allPredecessorsComplete |-> FALSE, latest |-> latest]
          ELSE LatestPredecessorCompletion(tasks, preds, k + 1,
                 IF latest = Null \/ tasks[p].actualCompletion > latest
                 THEN tasks[p].actualCompletion ELSE latest)

\* Whether the forEach callback leaves the entry alone (line 28)
SkipsEntry(task) == task.actualCompletion # Null

\* The start compared as a Date object: never equal to the stored one
StartAlwaysDiffers(newStart, oldStart) == TRUE

\* Whether a freshly computed start counts as a change (lines 59-62)
StartDiffers(newStart, oldStart) == newStart # oldStart

\* Dates compared with undefined instead of null: always something to clear
AlwaysHasDatesToClear(task) == TRUE

\* Whether an entry that is not ready has dates to clear (line 71)
HasDatesToClear(task) == task.start # Null \/ task.end # Null

\* The forEach callback for tasks[i] (lines 26-77)
RecalcEntry(tasks, i, seasonCreatedAt) ==
  LET task == tasks[i]
      r == IF Len(task.precedingTasks) = 0
           THEN [allPredecessorsComplete |-> TRUE, latest |-> seasonCreatedAt]
           ELSE LatestPredecessorCompletion(tasks, task.precedingTasks, 1, Null)
  IN IF SkipsEntry(task)
     THEN [tasks |-> tasks, changed |-> FALSE]
     ELSE IF r.allPredecessorsComplete /\ r.latest # Null
     THEN IF StartDiffers(r.latest, task.start)
          THEN [tasks |-> [tasks EXCEPT ![i].start = r.latest,
                                        ![i].end = AddDays(r.latest, task.leadTime)],
                changed |-> TRUE]
          ELSE [tasks |-> tasks, changed |-> FALSE]
     ELSE IF HasDatesToClear(task)
          THEN [tasks |-> [tasks EXCEPT ![i].start = Null, ![i].end = Null],
                changed |-> TRUE]
          ELSE [tasks |-> tasks, changed |-> FALSE]

\* One pass of tasks.forEach, from entry i on (lines 26-77)
RECURSIVE RecalcPass(_, _, _, _)
RecalcPass(tasks, i, seasonCreatedAt, changed) ==
  IF i > Len(tasks)
  THEN [tasks |-> tasks, changed |-> changed]
  ELSE LET e == RecalcEntry(tasks, i, seasonCreatedAt)
       IN RecalcPass(e.tasks, i + 1, seasonCreatedAt, changed \/ e.changed)

\* The while loop (lines 18-78)
RECURSIVE RecalcLoop(_, _, _, _)
RecalcLoop(tasks, seasonCreatedAt, changedInIteration, iterationCount) ==
  IF changedInIteration /\ iterationCount < Len(tasks) + IterationSlack
  THEN LET p == RecalcPass(tasks, 1, seasonCreatedAt, FALSE)
       IN RecalcLoop(p.tasks, seasonCreatedAt, p.changed, iterationCount + 1)
  ELSE [tasks |-> tasks,
        changedInIteration |-> changedInIteration,
        iterationCount |-> iterationCount]

recalculateAllTaskDates(tasks, seasonCreatedAt) ==
  RecalcLoop(tasks, seasonCreatedAt, TRUE, 0)

\* ------------------------------------------------------- attention tracker
\* Readiness read from the predecessors' completion dates, as the date
\* engine reads it
AllPredecessorsDated(tasks, task) ==
  \A k \in 1..Len(task.precedingTasks) :
    \E j \in 1..Len(tasks) :
      tasks[j].order = task.precedingTasks[k] /\ tasks[j].actualCompletion # Null

\* predecessors.every(...) of lines 98-101
AllPredecessorsCompleted(tasks, task) ==
  \A k \in 1..Len(task.precedingTasks) :
    LET p == TasksMapGet(tasks, task.precedingTasks[k])
    IN p # 0 /\ tasks[p].status = "completed"

\* Whether the tracker looks at the entry (line 96)
AttentionCandidate(task) == task.status = "pending"

\* The departments of every pending entry, ready or not
AttentionOfAllPending(tasks) ==
  UNION {tasks[i].responsible :
           i \in {j \in 1..Len(tasks) : tasks[j].status = "pending"}}

\* The value updateSeasonAttention assigns to season.requireAttention
updateSeasonAttention(tasks) ==
  UNION {tasks[i].responsible :
           i \in {j \in 1..Len(tasks) :
                    /\ AttentionCandidate(tasks[j])
                    /\ AllPredecessorsCompleted(tasks, tasks[j])}}

\* --------------------------------------------------------- graph validator
\* The letters of an order code, each as its position in the alphabet
\* (order codes match /^[A-Z]+$/, models/TaskTemplate.js line 8)
CodeUnits(code) ==
  CASE code = "A" -> <<1>>
    [] code = "B" -> <<2>>
    [] code = "X" -> <<24>>
    [] code = "Z" -> <<26>>
    [] code = "AA" -> <<1, 1>>

\* JavaScript's s < t on strings: the first differing code unit decides, a
\* proper prefix sorts first
RECURSIVE StringLess(_, _)
StringLess(s, t) ==
  IF Len(t) = 0 THEN FALSE
  ELSE IF Len(s) = 0 THEN TRUE
  ELSE IF s[1] # t[1] THEN s[1] < t[1]
  ELSE StringLess(Tail(s), Tail(t))

\* ptOrder >= currentOrder (line 13)
OrderGreaterOrEqual(ptOrder, currentOrder) ==
  ~StringLess(CodeUnits(ptOrder), CodeUnits(currentOrder))

\* validatePrecedingOrderAlphabetical: the preceding codes that the filter
\* of line 13 keeps
InvalidPrecedingTasks(currentOrder, precedingTasksArray) ==
  {precedingTasksArray[k] : k \in {n \in 1..Len(precedingTasksArray) :
      OrderGreaterOrEqual(precedingTasksArray[n], currentOrder)}}

validatePrecedingOrderAlphabetical(currentOrder, precedingTasksArray) ==
  [isValid |-> InvalidPrecedingTasks(currentOrder, precedingTasksArray) = {},
   invalidTasks |-> InvalidPrecedingTasks(currentOrder, precedingTasksArray)]

\* A cycle check that only sees a candidate listed among its own preceding
\* codes
DirectCycleOnly(orderToCheck, tasksToCheck, path, allTemplatesMap) ==
  orderToCheck \in Range(tasksToCheck)

\* hasCircularDependency: allTemplatesMap is a function from order codes to
\* lists of preceding codes
RECURSIVE hasCircularDependency(_, _, _, _)
hasCircularDependency(orderToCheck, tasksToCheck, path, allTemplatesMap) ==
  IF orderToCheck \in Range(path) THEN TRUE
  ELSE IF Len(tasksToCheck) = 0 THEN FALSE
  ELSE \E k \in 1..Len(tasksToCheck) :
         /\ tasksToCheck[k] \in DOMAIN allTemplatesMap
         /\ hasCircularDependency(tasksToCheck[k],
                                  allTemplatesMap[tasksToCheck[k]],
                                  Append(path, orderToCheck), allTemplatesMap)

\* ------------------------------------------------------------------- state
VARIABLES
  templates,   \* the template library, in the order TaskTemplate.find({}) returns it
  season,      \* the persisted Season document
  snapshot,    \* the persisted SeasonSnapshot document
  creation,    \* the season-creation request in flight
  tx,          \* per client: the task-update request it has in flight
  clients,     \* the clients that send task-update requests
  reply        \* the response of the step just taken, when it answers a
               \* season-status, season-edit or template request

vars == <<templates, season, snapshot, creation, tx, clients, reply>>

\* A task template (models/TaskTemplate.js)
Template(order, responsible, preceding, leadTime, isActive) ==
  [order |-> order,
   defaultResponsible |-> responsible,
   defaultPrecedingTasks |-> preceding,
   defaultLeadTime |-> leadTime,
   isActive |-> isActive]

NoSeason ==
  [exists |-> FALSE, status |-> "Open", requireAttention |-> {}, createdAt |-> Null]

NoSnapshot == [exists |-> FALSE, tasks |-> <<>>]

NoCreation ==
  [pc |-> "none", tasks |-> <<>>, seeded |-> <<>>, iterationCount |-> 0,
   changedInIteration |-> FALSE, requireAttention |-> {}]

\* No validator was called
NoChecks ==
  [order |-> "none", precedingTasks |-> <<>>, ordered |-> FALSE,
   isValid |-> TRUE, invalidTasks |-> {},
   cycleChecked |-> FALSE, allTemplatesMap |-> <<>>, circular |-> FALSE]

NoReply == [kind |-> "none", result |-> "none", logged |-> <<>>, checks |-> NoChecks]

Reply(kind, result, logged) ==
  [kind |-> kind, result |-> result, logged |-> logged, checks |-> NoChecks]

NoRequest ==
  [taskId |-> "none", actualCompletion |-> Null, remarks |-> NoRemarks,
   role |-> "none", department |-> "none"]

IdleTx ==
  [pc |-> "idle", req |-> NoRequest,
   tasks |-> <<>>, loadedTasks |-> <<>>,
   seasonDoc |-> NoSeason, loadedSeason |-> NoSeason,
   iterationCount |-> 0, changedInIteration |-> FALSE,
   result |-> "none", logged |-> <<>>, notified |-> {}]

\* No request is in flight
Quiescent ==
  /\ creation.pc \in {"none", "done"}
  /\ \A c \in clients : tx[c].pc = "idle"

\* No request is in flight and the last response has been delivered
Settled == Quiescent /\ reply = NoReply

\* The response of the last season or template request is delivered
Acknowledge ==
  /\ reply # NoReply
  /\ reply' = NoReply
  /\ UNCHANGED <<templates, season, snapshot, creation, tx, clients>>

\* ---------------------------------------------------- snapshot materializer
DefaultLeadTime == 1

\* The entry built from one template (POST /api/seasons, lines 409-419)
SnapshotTask(tt) ==
  [order |-> tt.order,
   responsible |-> tt.defaultResponsible,
   precedingTasks |-> tt.defaultPrecedingTasks,
   leadTime |-> IF tt.defaultLeadTime = 0 THEN DefaultLeadTime ELSE tt.defaultLeadTime,
   sourceTemplateActiveOnCreation |-> tt.isActive,
   status |-> IF tt.isActive THEN "pending" ELSE "completed",
   actualCompletion |-> Null,
   remarks |-> NoRemarks,
   start |-> Null,
   end |-> Null]

MaterializeSnapshot(tpls) == [i \in 1..Len(tpls) |-> SnapshotTask(tpls[i])]

\* Mongoose's enum validator on Season.requireAttention, run by season.save()
SeasonValidates(doc) == doc.requireAttention \subseteq SeasonDepartments

\* season.save(): the paths modified since the document was loaded are written
SaveSeasonDoc(stored, doc, loaded) ==
  [stored EXCEPT
     !.status = IF doc.status # loaded.status THEN doc.status ELSE @,
     !.requireAttention =
        IF doc.requireAttention # loaded.requireAttention
        THEN doc.requireAttention ELSE @]

\* POST /api/seasons up to the entry list (lines 375-419): the season is
\* saved Open with an empty requireAttention, the entries are built in memory
CreateSeason(createdAt) ==
  /\ ~season.exists
  /\ creation.pc = "none"
  /\ season' = [exists |-> TRUE, status |-> "Open",
                requireAttention |-> {}, createdAt |-> createdAt]
  /\ creation' = [NoCreation EXCEPT !.pc = "materialized",
                                    !.tasks = MaterializeSnapshot(templates)]
  /\ UNCHANGED <<templates, snapshot, tx, clients>>
  /\ reply' = NoReply

\* POST /api/seasons from the seeding propagation on (lines 421-431):
\* recalculateAllTaskDates, updateSeasonAttention, seasonSnapshot.save(),
\* season.save()
SeedSnapshot ==
  /\ creation.pc = "materialized"
  /\ LET r == recalculateAllTaskDates(creation.tasks, season.createdAt)
         doc == [season EXCEPT !.requireAttention = updateSeasonAttention(r.tasks)]
     IN /\ snapshot' = [exists |-> TRUE, tasks |-> r.tasks]
        /\ season' = IF SeasonValidates(doc)
                     THEN SaveSeasonDoc(season, doc, season)
                     ELSE season
        /\ creation' = [creation EXCEPT !.pc = "done",
                                        !.seeded = r.tasks,
                                        !.iterationCount = r.iterationCount,
                                        !.changedInIteration = r.changedInIteration,
                                        !.requireAttention = doc.requireAttention]
  /\ UNCHANGED <<templates, tx, clients>>
  /\ reply' = NoReply

\* ------------------------------------------------- task-update transaction
\* snapshot.tasks.find(t => String(t._id) === taskId): an entry's id is
\* modelled by its order code; 0 when no entry carries the id
FindTask(tasks, taskId) ==
  LET hits == {i \in 1..Len(tasks) : tasks[i].order = taskId}
  IN IF hits = {} THEN 0 ELSE CHOOSE i \in hits : \A j \in hits : i <= j

\* user.role.toLowerCase(), over the roles of the User schema
ToLowerCase(role) ==
  CASE role = "Admin" -> "admin"
    [] role = "Planner" -> "planner"
    [] role = "User" -> "user"

\* The elevated-role test of updateTaskAndProgressSeason (lines 134-135)
IsAdminOrPlanner(role) == ToLowerCase(role) \in {"admin", "planner"}

\* The elevated-role test of the route (line 711)
IsPlannerOrAdmin(role) == role = "Planner" \/ role = "Admin"

\* The setter of the schema option trim: true on an entry's remarks
\* (models/SeasonSnapshot.js lines 30-34), run when task.remarks is assigned
Trim(remarks) == IF remarks = " r1" THEN "r1" ELSE remarks

\* The test of the remarks update (taskProgression.js line 148): the stored
\* remarks against the remarks as the request carries them
RemarksChange(task, remarks) == remarks # NoRemarks /\ task.remarks # remarks

\* The completion-date comparison at day granularity (lines 162-173)
CompletionChange(task, actualCompletion) ==
  /\ actualCompletion # Null
  /\ (task.actualCompletion = Null
        \/ DayOf(actualCompletion) # DayOf(task.actualCompletion))

\* A completion block without the prerequisite loop
NoPrerequisiteCheck(tasks, preds, k) == "ok"

\* The prerequisite loop (lines 181-189): "ok", or the error the first
\* predecessor that is missing or not completed raises.  The message reads
\* predecessor.name, which throws a TypeError when the predecessor is missing.
RECURSIVE PrerequisiteCheck(_, _, _)
PrerequisiteCheck(tasks, preds, k) ==
  IF k > Len(preds) THEN "ok"
  ELSE LET p == TasksMapGet(tasks, preds[k])
       IN IF p = 0 THEN "TypeError"
          ELSE IF tasks[p].status # "completed" THEN "ValidationError"
          ELSE PrerequisiteCheck(tasks, preds, k + 1)

\* The outcome of the completion block (lines 162-189): the error it throws,
\* or "ok" when it throws none
CompletionOutcome(tasks, task, actualCompletion, isAdminOrPlanner) ==
  IF actualCompletion = InvalidDate THEN "InvalidDate"
  ELSE IF ~CompletionChange(task, actualCompletion) THEN "ok"
  ELSE IF task.status = "completed" /\ ~isAdminOrPlanner THEN "Forbidden"
  ELSE PrerequisiteCheck(tasks, task.precedingTasks, 1)

\* The request's record once it has returned: its outcome, the activity
\* entries it wrote and the notifications it sent
Done(t, result, logged) ==
  [IdleTx EXCEPT !.pc = "done", !.req = t.req, !.result = result,
                 !.logged = logged, !.notified = t.notified]

\* The entries saved although the update throws
SavedBeforeThrow(stored, doc) == doc

\* The stored entries once updateTaskAndProgressSeason has thrown: the
\* document it edited in memory (line 150) goes to the route's catch block,
\* which answers 500 and saves nothing (taskTemplateRoutes.js lines 751-754)
StoredAfterThrow(stored, doc) == stored

\* PUT /api/seasons/:seasonId/tasks/:taskId up to the call, and
\* updateTaskAndProgressSeason up to its "no changes" return
\* (taskTemplateRoutes.js lines 677-722, taskProgression.js lines 128-211).
\* Nothing persisted is written here but the activity log.
TaskUpdateRequest(c, req) ==
  /\ c \in clients
  /\ tx[c].pc = "idle"
  /\ LET t == [IdleTx EXCEPT !.req = req]
         i == FindTask(snapshot.tasks, req.taskId)
         task == snapshot.tasks[i]
         elevated == IsAdminOrPlanner(req.role)
         remarksChanged == RemarksChange(task, req.remarks)
         afterRemarks ==
           IF remarksChanged
           THEN [snapshot.tasks EXCEPT ![i].remarks = Trim(req.remarks)]
           ELSE snapshot.tasks
         loggedRemarks == IF remarksChanged THEN <<"UPDATE_REMARKS">> ELSE <<>>
         outcome == CompletionOutcome(afterRemarks, afterRemarks[i],
                                      req.actualCompletion, elevated)
         completionChanged ==
           outcome = "ok" /\ CompletionChange(task, req.actualCompletion)
         afterCompletion ==
           IF completionChanged
           THEN [afterRemarks EXCEPT ![i].actualCompletion = req.actualCompletion,
                                     ![i].status = "completed"]
           ELSE afterRemarks
         thrown ==
           /\ season.exists /\ season.status = "Open"
           /\ snapshot.exists /\ i # 0
           /\ (req.department \in task.responsible \/ IsPlannerOrAdmin(req.role))
           /\ outcome # "ok"
     IN /\ snapshot' =
             IF thrown
             THEN [snapshot EXCEPT
                     !.tasks = StoredAfterThrow(snapshot.tasks, afterRemarks)]
             ELSE snapshot
        /\ tx' = [tx EXCEPT ![c] =
          IF ~season.exists THEN Done(t, "NotFound", <<>>)
          ELSE IF season.status # "Open" THEN Done(t, "SeasonNotOpen", <<>>)
          ELSE IF ~snapshot.exists \/ i = 0 THEN Done(t, "NotFound", <<>>)
          ELSE IF ~(req.department \in task.responsible)
                    /\ ~IsPlannerOrAdmin(req.role)
          THEN Done(t, "NotAuthorized", <<>>)
          ELSE IF outcome # "ok" THEN Done(t, outcome, loggedRemarks)
          ELSE IF ~remarksChanged /\ ~completionChanged
          THEN Done(t, "NoChanges", <<>>)
          ELSE [t EXCEPT !.pc = "changed",
                         !.tasks = afterCompletion,
                         !.loadedTasks = snapshot.tasks,
                         !.logged = loggedRemarks \o
                            (IF completionChanged
                             THEN <<"UPDATE_COMPLETION_DATE">> ELSE <<>>)]]
  /\ UNCHANGED <<templates, season, creation, clients>>
  /\ reply' = NoReply

\* The entries a "task now actionable" notification goes out for
\* (lines 223-237); snapshot.tasks.find takes the first entry with the code
NewlyActionableTasks(tasks, task) ==
  IF task.status # "completed" THEN {}
  ELSE {tasks[j].order : j \in {k \in 1..Len(tasks) :
          /\ tasks[k].status = "pending"
          /\ task.order \in Range(tasks[k].precedingTasks)
          /\ \A n \in 1..Len(tasks[k].precedingTasks) :
               LET p == FindTask(tasks, tasks[k].precedingTasks[n])
               IN p # 0 /\ tasks[p].status = "completed"}}

\* Season.findById, recalculateAllTaskDates, the notifications and
\* updateSeasonAttention (lines 213-275)
LoadSeasonAndPropagate(c) ==
  /\ c \in clients
  /\ tx[c].pc = "changed"
  /\ LET t == tx[c]
         r == recalculateAllTaskDates(t.tasks, season.createdAt)
         i == FindTask(r.tasks, t.req.taskId)
     IN tx' = [tx EXCEPT ![c] =
          IF ~season.exists
          THEN Done(t, "NotFound", t.logged)
          ELSE [t EXCEPT !.pc = "saveSeason",
                         !.tasks = r.tasks,
                         !.iterationCount = r.iterationCount,
                         !.changedInIteration = r.changedInIteration,
                         !.notified = NewlyActionableTasks(r.tasks, r.tasks[i]),
                         !.loadedSeason = season,
                         !.seasonDoc =
                            [season EXCEPT !.requireAttention =
                                              updateSeasonAttention(r.tasks)]]]
  /\ UNCHANGED <<templates, season, snapshot, creation, clients>>
  /\ reply' = NoReply

\* await season.save() (line 277)
SaveSeason(c) ==
  /\ c \in clients
  /\ tx[c].pc = "saveSeason"
  /\ LET t == tx[c]
     IN IF SeasonValidates(t.seasonDoc)
        THEN /\ season' = SaveSeasonDoc(season, t.seasonDoc, t.loadedSeason)
             /\ tx' = [tx EXCEPT ![c] = [t EXCEPT !.pc = "saveSnapshot"]]
        ELSE /\ season' = season
             /\ tx' = [tx EXCEPT ![c] = Done(t, "SeasonValidationError", t.logged)]
  /\ UNCHANGED <<templates, snapshot, creation, clients>>
  /\ reply' = NoReply

\* A save that keeps the stored entries when another request wrote them
\* since the load
VersionCheckedSave(stored, doc, loaded) == IF stored # loaded THEN stored ELSE doc

\* A save that writes the whole document as the request holds it in memory
WholeDocumentSave(stored, doc, loaded) == doc

\* snapshot.save(): the entry fields modified since the load are written
SaveSnapshotDoc(stored, doc, loaded) ==
  [i \in 1..Len(stored) |->
     [f \in DOMAIN stored[i] |->
        IF doc[i][f] # loaded[i][f] THEN doc[i][f] ELSE stored[i][f]]]

\* Completion read from the entries' completion dates
AllTasksDated(tasks) == \A i \in 1..Len(tasks) : tasks[i].actualCompletion # Null

\* snapshot.tasks.every(t => t.status === 'completed') (line 282)
AllTasksCompleted(tasks) == \A i \in 1..Len(tasks) : tasks[i].status = "completed"

\* await snapshot.save() and the auto-closure test (lines 278-284)
SaveSnapshot(c) ==
  /\ c \in clients
  /\ tx[c].pc = "saveSnapshot"
  /\ LET t == tx[c]
     IN /\ snapshot' = [snapshot EXCEPT
                          !.tasks = SaveSnapshotDoc(snapshot.tasks, t.tasks, t.loadedTasks)]
        /\ tx' = [tx EXCEPT ![c] =
             IF AllTasksCompleted(t.tasks) /\ t.seasonDoc.status # "Closed"
             THEN [t EXCEPT !.pc = "closing"]
             ELSE Done(t, "ok", t.logged)]
  /\ UNCHANGED <<templates, season, creation, clients>>
  /\ reply' = NoReply

\* The automatic closure (lines 285-299): the paths modified since the save
\* of line 277 are written
AutoClose(c) ==
  /\ c \in clients
  /\ tx[c].pc = "closing"
  /\ LET t == tx[c]
         doc == [t.seasonDoc EXCEPT !.status = "Closed", !.requireAttention = {}]
     IN /\ season' = SaveSeasonDoc(season, doc, t.seasonDoc)
        /\ tx' = [tx EXCEPT ![c] = Done(t, "ok", t.logged \o <<"UPDATE_STATUS">>)]
  /\ UNCHANGED <<templates, snapshot, creation, clients>>
  /\ reply' = NoReply

\* A save() of the update rejects (the database refuses or loses the write):
\* nothing in updateTaskAndProgressSeason catches it, the route's catch block
\* answers 500 (taskTemplateRoutes.js lines 751-754) and what the earlier
\* saves wrote stays written
SaveRejected(c, at) ==
  /\ c \in clients
  /\ tx[c].pc = at
  /\ tx' = [tx EXCEPT ![c] = Done(tx[c], "SaveError", tx[c].logged)]
  /\ UNCHANGED <<templates, season, snapshot, creation, clients>>
  /\ reply' = NoReply

\* await season.save() rejects (line 277)
SaveSeasonFails(c) == SaveRejected(c, "saveSeason")

\* await snapshot.save() rejects (line 278)
SaveSnapshotFails(c) == SaveRejected(c, "saveSnapshot")

\* The await season.save() of the automatic closure rejects (line 288)
AutoCloseFails(c) == SaveRejected(c, "closing")

\* The response is sent (taskTemplateRoutes.js lines 724-754) and the
\* request's record is dropped
Respond(c) ==
  /\ c \in clients
  /\ tx[c].pc = "done"
  /\ tx' = [tx EXCEPT ![c] = IdleTx]
  /\ UNCHANGED <<templates, season, snapshot, creation, clients>>
  /\ reply' = NoReply

\* ------------------------------------------------------- season lifecycle
\* PUT /api/seasons/:id/status (controllers/seasonController.js,
\* updateSeasonStatus, lines 13-64)
UpdateSeasonStatus(newStatus) ==
  /\ season.exists
  /\ LET doc == [season EXCEPT
                   !.status = newStatus,
                   !.requireAttention =
                      IF newStatus = "Open"
                      THEN (IF snapshot.exists
                            THEN updateSeasonAttention(snapshot.tasks) ELSE @)
                      ELSE {}]
     IN IF newStatus \notin SeasonStatuses
        THEN /\ season' = season
             /\ reply' = Reply("updateSeasonStatus", "InvalidStatus", <<>>)
        ELSE IF season.status = newStatus
        THEN /\ season' = season
             /\ reply' = Reply("updateSeasonStatus", "AlreadySet", <<>>)
        ELSE IF SeasonValidates(doc)
        THEN /\ season' = SaveSeasonDoc(season, doc, season)
             /\ reply' = Reply("updateSeasonStatus", "ok", <<"UPDATE_STATUS">>)
        ELSE /\ season' = season
             /\ reply' = Reply("updateSeasonStatus", "ServerError", <<>>)
  /\ UNCHANGED <<templates, snapshot, creation, tx, clients>>

\* PUT /api/seasons/:id (taskTemplateRoutes.js lines 580-645): the status and
\* requireAttention fields of the body, each present or not
EditSeason(hasStatus, status, hasAttention, requireAttention) ==
  /\ season.exists
  /\ LET doc == [season EXCEPT
                   !.status = IF hasStatus THEN status ELSE @,
                   !.requireAttention = IF hasAttention THEN requireAttention ELSE @]
     IN IF SeasonValidates(doc)
        THEN /\ season' = SaveSeasonDoc(season, doc, season)
             /\ reply' = Reply("editSeason", "ok", <<>>)
        ELSE /\ season' = season
             /\ reply' = Reply("editSeason", "ServerError", <<>>)
  /\ UNCHANGED <<templates, snapshot, creation, tx, clients>>

\* DELETE /api/seasons/:id (taskTemplateRoutes.js lines 650-672).  tasksCount
\* is what Task.countDocuments({ season }) returns: the documents of the
\* Task collection, which the routes of routes/taskRoutes.js write and the
\* season creation does not.  The snapshot is neither read nor deleted.
DeleteSeason(tasksCount) ==
  /\ IF ~season.exists
     THEN /\ season' = season
          /\ reply' = Reply("deleteSeason", "NotFound", <<>>)
     ELSE IF tasksCount > 0
     THEN /\ season' = season
          /\ reply' = Reply("deleteSeason", "HasTasks", <<>>)
     ELSE /\ season' = NoSeason
          /\ reply' = Reply("deleteSeason", "ok", <<>>)
  /\ UNCHANGED <<templates, snapshot, creation, tx, clients>>

\* ------------------------------------------------- lifecycle specification
\* Requests run one after the other, each to its end.  The library holds
\* template A (lead 2, no preceding code) and template B (lead 3), as in the
\* scenario of the specification; "Z" is an order code no template carries,
\* left behind by a rename through PUT /api/task-templates/:id, which
\* rewrites no other template's preceding codes.
LifecycleLibraries ==
  {<<Template("A", {"PD"}, <<>>, 2, activeA),
     Template("B", respB, precB, 3, activeB)>> :
     activeA \in BOOLEAN, activeB \in BOOLEAN,
     respB \in {{"PD", "QA"}, {"IT"}},
     precB \in {<<>>, <<"A">>, <<"A", "Z">>}}

LifecycleCreatedAt == {1}

LifecycleRequests ==
  [taskId : {"A", "B"},
   actualCompletion : {Null, 0, MaxTime},
   remarks : {NoRemarks, "r1"},
   role : {"Admin", "User"},
   department : {"PD"}]

\* The requireAttention values a season edit may carry
EditAttentionChoices == {{}, {"PD"}}

Init ==
  /\ templates \in LifecycleLibraries
  /\ season = NoSeason
  /\ snapshot = NoSnapshot
  /\ creation = NoCreation
  /\ clients = {"c1"}
  /\ tx = [c \in clients |-> IdleTx]
  /\ reply = NoReply

Next ==
  \/ \E createdAt \in LifecycleCreatedAt : Settled /\ CreateSeason(createdAt)
  \/ SeedSnapshot
  \/ \E c \in clients, req \in LifecycleRequests :
       Settled /\ TaskUpdateRequest(c, req)
  \/ \E c \in clients : LoadSeasonAndPropagate(c)
  \/ \E c \in clients : SaveSeason(c)
  \/ \E c \in clients : SaveSnapshot(c)
  \/ \E c \in clients : AutoClose(c)
  \/ \E c \in clients : Respond(c)
  \/ \E newStatus \in SeasonStatuses \cup {"Archived"} :
       Settled /\ UpdateSeasonStatus(newStatus)
  \/ \E hasStatus \in BOOLEAN, status \in SeasonStatuses,
        hasAttention \in BOOLEAN, ra \in EditAttentionChoices :
       Settled /\ EditSeason(hasStatus, status, hasAttention, ra)
  \/ Acknowledge

Spec == Init /\ [][Next]_vars

\* ----------------------------------------------------- dates specification
\* The date engine over a wider family of libraries: lead times and creation
\* timestamps vary, and the preceding codes include a missing code and the
\* cycle A -> B -> A that renames can leave behind.  The season stays under
\* task updates only; the actor is an admin, who may amend completed entries.
MaxCreatedAt == 1

DateLibraries ==
  {<<Template("A", {"PD"}, precA, leadA, activeA),
     Template("B", {"QA"}, precB, leadB, activeB)>> :
     activeA \in BOOLEAN, activeB \in BOOLEAN,
     leadA \in 1..MaxLeadTime, leadB \in 1..MaxLeadTime,
     precA \in {<<>>, <<"B">>},
     precB \in {<<>>, <<"A">>, <<"A", "Z">>}}

DateRequests ==
  [taskId : {"A", "B"},
   actualCompletion : {Null} \cup Times,
   remarks : {NoRemarks, "r1"},
   role : {"Admin"},
   department : {"AM"}]

InitDates ==
  /\ templates \in DateLibraries
  /\ season = NoSeason
  /\ snapshot = NoSnapshot
  /\ creation = NoCreation
  /\ clients = {"c1"}
  /\ tx = [c \in clients |-> IdleTx]
  /\ reply = NoReply

NextDates ==
  \/ \E createdAt \in 0..MaxCreatedAt : Quiescent /\ CreateSeason(createdAt)
  \/ SeedSnapshot
  \/ \E c \in clients, req \in DateRequests :
       Quiescent /\ TaskUpdateRequest(c, req)
  \/ \E c \in clients : LoadSeasonAndPropagate(c)
  \/ \E c \in clients : SaveSeason(c)
  \/ \E c \in clients : SaveSnapshot(c)
  \/ \E c \in clients : AutoClose(c)
  \/ \E c \in clients : Respond(c)

SpecDates == InitDates /\ [][NextDates]_vars

\* -------------------------------------------------------- template routes
\* The order codes of the stored templates
TemplateOrders(tpls) == {tpls[i].order : i \in 1..Len(tpls)}

\* allTemplatesMap / hypotheticalTemplatesMap: every stored template but the
\* one at position skip (0 for none), with the candidate's entry set last
HypotheticalTemplatesMap(tpls, skip, order, precedingTasks) ==
  LET others == {i \in 1..Len(tpls) : i # skip}
  IN [o \in {tpls[i].order : i \in others} \cup {order} |->
        IF o = order THEN precedingTasks
        ELSE tpls[CHOOSE i \in others : tpls[i].order = o].defaultPrecedingTasks]

\* The validator calls of a create or update request with a non-empty
\* preceding-codes field: the cycle check first, the ordering check when it
\* found no cycle
ValidatorChecks(tpls, skip, order, precedingTasks) ==
  LET map == HypotheticalTemplatesMap(tpls, skip, order, precedingTasks)
      circular == hasCircularDependency(order, precedingTasks, <<>>, map)
      v == validatePrecedingOrderAlphabetical(order, precedingTasks)
  IN [order |-> order, precedingTasks |-> precedingTasks,
      ordered |-> ~circular,
      isValid |-> IF circular THEN TRUE ELSE v.isValid,
      invalidTasks |-> IF circular THEN {} ELSE v.invalidTasks,
      cycleChecked |-> TRUE, allTemplatesMap |-> map, circular |-> circular]

\* The outcome of the three checks on a non-empty preceding-codes field
\* (POST lines 64-100, PUT lines 192-246)
PrecedingTasksOutcome(tpls, checks) ==
  IF checks.circular THEN "Circular"
  ELSE IF ~checks.isValid THEN "InvalidOrder"
  ELSE IF ~(Range(checks.precedingTasks) \subseteq TemplateOrders(tpls))
  THEN "NotFoundOrders"
  ELSE "ok"

TemplateReply(kind, result, checks) ==
  [kind |-> kind, result |-> result, logged |-> <<>>, checks |-> checks]

\* POST /api/task-templates (lines 47-119); the template is stored active,
\* with the department and lead time the request names
CreateTemplate(order, precedingTasks) ==
  LET checks == IF Len(precedingTasks) > 0
                THEN ValidatorChecks(templates, 0, order, precedingTasks)
                ELSE NoChecks
      outcome == IF order \in TemplateOrders(templates) THEN "OrderExists"
                 ELSE IF Len(precedingTasks) > 0
                 THEN PrecedingTasksOutcome(templates, checks)
                 ELSE "ok"
  IN /\ templates' =
          IF outcome = "ok"
          THEN Append(templates, Template(order, {"PD"}, precedingTasks, 1, TRUE))
          ELSE templates
     /\ reply' = TemplateReply("createTemplate", outcome,
                                IF outcome = "OrderExists" THEN NoChecks ELSE checks)
     /\ UNCHANGED <<season, snapshot, creation, tx, clients>>

\* PUT /api/task-templates/:id (lines 164-266) on the template at position
\* i; the order and the preceding codes are each present in the body or not
UpdateTemplate(i, hasOrder, order, hasPrecedingTasks, precedingTasks) ==
  /\ i \in 1..Len(templates)
  /\ LET template == templates[i]
         renames == hasOrder /\ order # template.order
         newOrder == IF hasOrder THEN order ELSE template.order
         checked == hasPrecedingTasks /\ Len(precedingTasks) > 0
         checks == IF checked
                   THEN ValidatorChecks(templates, i, newOrder, precedingTasks)
                   ELSE NoChecks
         outcome ==
           IF renames /\ order \in TemplateOrders(templates) THEN "OrderExists"
           ELSE IF checked THEN PrecedingTasksOutcome(templates, checks)
           ELSE "ok"
     IN /\ templates' =
             IF outcome = "ok"
             THEN [templates EXCEPT
                     ![i].order = newOrder,
                     ![i].defaultPrecedingTasks =
                        IF hasPrecedingTasks THEN precedingTasks ELSE @]
             ELSE templates
        /\ reply' = TemplateReply("updateTemplate", outcome,
                                   IF outcome = "OrderExists" THEN NoChecks ELSE checks)
  /\ UNCHANGED <<season, snapshot, creation, tx, clients>>

\* A toggle that carries the template's new state into the snapshot's entry
ToggleRewritesSnapshot(i) ==
  /\ i \in 1..Len(templates)
  /\ templates' = [templates EXCEPT ![i].isActive = ~@]
  /\ snapshot' =
       [snapshot EXCEPT !.tasks =
          [k \in 1..Len(snapshot.tasks) |->
             IF snapshot.tasks[k].order = templates[i].order
             THEN [snapshot.tasks[k] EXCEPT
                     !.sourceTemplateActiveOnCreation = ~templates[i].isActive]
             ELSE snapshot.tasks[k]]]
  /\ reply' = TemplateReply("toggleActive", "ok", NoChecks)
  /\ UNCHANGED <<season, creation, tx, clients>>

\* PATCH /api/task-templates/:id/toggle-active (lines 271-292)
ToggleActive(i) ==
  /\ i \in 1..Len(templates)
  /\ templates' = [templates EXCEPT ![i].isActive = ~@]
  /\ reply' = TemplateReply("toggleActive", "ok", NoChecks)
  /\ UNCHANGED <<season, snapshot, creation, tx, clients>>

\* The list without its element at position i
RemoveAt(seq, i) == [k \in 1..(Len(seq) - 1) |-> IF k < i THEN seq[k] ELSE seq[k + 1]]

\* DELETE /api/task-templates/:id (lines 297-328)
DeleteTemplate(i) ==
  /\ i \in 1..Len(templates)
  /\ LET template == templates[i]
         snapshotInUse ==
           snapshot.exists /\ \E k \in 1..Len(snapshot.tasks) :
                                snapshot.tasks[k].order = template.order
         dependentTemplate ==
           \E k \in 1..Len(templates) :
             template.order \in Range(templates[k].defaultPrecedingTasks)
         outcome == IF snapshotInUse THEN "InUse"
                    ELSE IF dependentTemplate THEN "IsDependency"
                    ELSE "ok"
     IN /\ templates' = IF outcome = "ok" THEN RemoveAt(templates, i) ELSE templates
        /\ reply' = TemplateReply("deleteTemplate", outcome, NoChecks)
  /\ UNCHANGED <<season, snapshot, creation, tx, clients>>

\* -------------------------------------------------- templates specification
\* An admin builds and edits the library from nothing, one request at a time
MaxTemplates == 3

TemplateCodes == {"B", "Z", "AA"}

\* The preceding-code lists a request may carry: up to two distinct codes
PrecedingInputs ==
  {<<>>} \cup {<<a>> : a \in TemplateCodes}
         \cup {<<p[1], p[2]>> :
                 p \in {q \in TemplateCodes \X TemplateCodes : q[1] # q[2]}}

InitTemplates ==
  /\ templates = <<>>
  /\ season = NoSeason
  /\ snapshot = NoSnapshot
  /\ creation = NoCreation
  /\ clients = {"c1"}
  /\ tx = [c \in clients |-> IdleTx]
  /\ reply = NoReply

NextTemplates ==
  \/ \E order \in TemplateCodes, precedingTasks \in PrecedingInputs :
       /\ Settled
       /\ Len(templates) < MaxTemplates
       /\ CreateTemplate(order, precedingTasks)
  \/ \E i \in 1..MaxTemplates, hasOrder \in BOOLEAN, order \in TemplateCodes,
        hasPrecedingTasks \in BOOLEAN, precedingTasks \in PrecedingInputs :
       Settled /\ UpdateTemplate(i, hasOrder, order, hasPrecedingTasks, precedingTasks)
  \/ \E i \in 1..MaxTemplates : Settled /\ ToggleActive(i)
  \/ \E i \in 1..MaxTemplates : Settled /\ DeleteTemplate(i)
  \/ Acknowledge

SpecTemplates == InitTemplates /\ [][NextTemplates]_vars

\* ---------------------------------------------------- update specification
\* The task-update request against every kind of caller and request body:
\* an unknown entry id, an unparsable date, a caller of another department,
\* a planner.
UpdateLibraries ==
  {<<Template("A", {"PD"}, <<>>, 1, activeA),
     Template("B", {"PD", "QA"}, precB, 1, activeB)>> :
     activeA \in BOOLEAN, activeB \in BOOLEAN,
     precB \in {<<>>, <<"A">>, <<"A", "Z">>, <<"Z", "A">>}}

UpdateRequests ==
  [taskId : {"A", "B", "X"},
   actualCompletion : {Null, InvalidDate} \cup Times,
   remarks : {NoRemarks, "r1", " r1"},
   role : {"Admin", "Planner", "User"},
   department : {"QA", "AM"}]

InitUpdate ==
  /\ templates \in UpdateLibraries
  /\ season = NoSeason
  /\ snapshot = NoSnapshot
  /\ creation = NoCreation
  /\ clients = {"c1"}
  /\ tx = [c \in clients |-> IdleTx]
  /\ reply = NoReply

NextUpdate ==
  \/ \E createdAt \in {0} : Quiescent /\ CreateSeason(createdAt)
  \/ SeedSnapshot
  \/ \E c \in clients, req \in UpdateRequests :
       Quiescent /\ TaskUpdateRequest(c, req)
  \/ \E c \in clients : LoadSeasonAndPropagate(c)
  \/ \E c \in clients : SaveSeason(c)
  \/ \E c \in clients : SaveSnapshot(c)
  \/ \E c \in clients : AutoClose(c)
  \/ \E c \in clients : Respond(c)

SpecUpdate == InitUpdate /\ [][NextUpdate]_vars

\* ---------------------------------------------------- faults specification
\* The task-update request against a database that may reject any save.
FaultRequests ==
  {req \in UpdateRequests : req.remarks # " r1" /\ req.role # "Planner"}

NextFaults ==
  \/ \E createdAt \in {0} : Quiescent /\ CreateSeason(createdAt)
  \/ SeedSnapshot
  \/ \E c \in clients, req \in FaultRequests :
       Quiescent /\ TaskUpdateRequest(c, req)
  \/ \E c \in clients : LoadSeasonAndPropagate(c)
  \/ \E c \in clients : SaveSeason(c)
  \/ \E c \in clients : SaveSeasonFails(c)
  \/ \E c \in clients : SaveSnapshot(c)
  \/ \E c \in clients : SaveSnapshotFails(c)
  \/ \E c \in clients : AutoClose(c)
  \/ \E c \in clients : AutoCloseFails(c)
  \/ \E c \in clients : Respond(c)

SpecFaults == InitUpdate /\ [][NextFaults]_vars

\* ------------------------------------------------------ race specification
\* Two clients send task updates against the same season and snapshot; no
\* request waits for another, so the steps of two requests interleave at
\* every await.
RaceLibraries ==
  {<<Template("A", {"PD"}, <<>>, 1, TRUE),
     Template("B", {"QA"}, precB, 1, TRUE)>> : precB \in {<<>>, <<"A">>}}

RaceRequests ==
  [taskId : {"A", "B"},
   actualCompletion : {Null, 0},
   remarks : {NoRemarks, "r1"},
   role : {"Admin"},
   department : {"PD"}]

InitRace ==
  /\ templates \in RaceLibraries
  /\ season = NoSeason
  /\ snapshot = NoSnapshot
  /\ creation = NoCreation
  /\ clients = {"c1", "c2"}
  /\ tx = [c \in clients |-> IdleTx]
  /\ reply = NoReply

NextRace ==
  \/ \E createdAt \in {0} : CreateSeason(createdAt)
  \/ SeedSnapshot
  \/ \E c \in clients, req \in RaceRequests :
       creation.pc = "done" /\ TaskUpdateRequest(c, req)
  \/ \E c \in clients : LoadSeasonAndPropagate(c)
  \/ \E c \in clients : SaveSeason(c)
  \/ \E c \in clients : SaveSnapshot(c)
  \/ \E c \in clients : AutoClose(c)
  \/ \E c \in clients : Respond(c)

SpecRace == InitRace /\ [][NextRace]_vars

\* ------------------------------------------------ interleave specification
\* One client's task update with status changes arriving at any of its
\* awaits: updateSeasonStatus does not wait for a task update to finish.
InterleavedStatuses == {"Open", "On-Hold", "Closed"}

InitInterleave ==
  /\ templates \in RaceLibraries
  /\ season = NoSeason
  /\ snapshot = NoSnapshot
  /\ creation = NoCreation
  /\ clients = {"c1"}
  /\ tx = [c \in clients |-> IdleTx]
  /\ reply = NoReply

NextInterleave ==
  \/ \E createdAt \in {0} : CreateSeason(createdAt)
  \/ SeedSnapshot
  \/ \E c \in clients, req \in RaceRequests :
       creation.pc = "done" /\ TaskUpdateRequest(c, req)
  \/ \E c \in clients : LoadSeasonAndPropagate(c)
  \/ \E c \in clients : SaveSeason(c)
  \/ \E c \in clients : SaveSnapshot(c)
  \/ \E c \in clients : AutoClose(c)
  \/ \E c \in clients : Respond(c)
  \/ \E newStatus \in InterleavedStatuses :
       creation.pc = "done" /\ reply = NoReply /\ UpdateSeasonStatus(newStatus)
  \/ Acknowledge

SpecInterleave == InitInterleave /\ [][NextInterleave]_vars

\* --------------------------------------------------- delete specification
\* Season creation, task updates and the deletion of the season, one request
\* at a time.
TaskDocumentCounts == {0, 1}

NextDelete ==
  \/ \E createdAt \in LifecycleCreatedAt : Settled /\ CreateSeason(createdAt)
  \/ SeedSnapshot
  \/ \E c \in clients, req \in LifecycleRequests :
       Settled /\ TaskUpdateRequest(c, req)
  \/ \E c \in clients : LoadSeasonAndPropagate(c)
  \/ \E c \in clients : SaveSeason(c)
  \/ \E c \in clients : SaveSnapshot(c)
  \/ \E c \in clients : AutoClose(c)
  \/ \E c \in clients : Respond(c)
  \/ \E tasksCount \in TaskDocumentCounts : Settled /\ DeleteSeason(tasksCount)
  \/ Acknowledge

SpecDelete == Init /\ [][NextDelete]_vars

\* --------------------------------------------------- library specification
\* A season is created from a two-template library; the admin then edits
\* the library, one request at a time.
LibraryCodes == {"Z", "AA"}

LibraryPrecedingInputs == {<<>>, <<"A">>}

NextLibrary ==
  \/ \E createdAt \in {0} : Settled /\ CreateSeason(createdAt)
  \/ SeedSnapshot
  \/ \E order \in LibraryCodes, precedingTasks \in LibraryPrecedingInputs :
       /\ Settled /\ snapshot.exists
       /\ Len(templates) < MaxTemplates
       /\ CreateTemplate(order, precedingTasks)
  \/ \E i \in 1..MaxTemplates, hasOrder \in BOOLEAN, order \in LibraryCodes,
        hasPrecedingTasks \in BOOLEAN, precedingTasks \in LibraryPrecedingInputs :
       /\ Settled /\ snapshot.exists
       /\ UpdateTemplate(i, hasOrder, order, hasPrecedingTasks, precedingTasks)
  \/ \E i \in 1..MaxTemplates : Settled /\ snapshot.exists /\ ToggleActive(i)
  \/ \E i \in 1..MaxTemplates : Settled /\ snapshot.exists /\ DeleteTemplate(i)
  \/ Acknowledge

SpecLibrary == InitInterleave /\ [][NextLibrary]_vars

\* ================================================================== claims
\* A season creation runs its seeding propagation in this step
Seeds == creation.pc = "materialized" /\ creation'.pc = "done"

\* Client c's task update runs its propagation in this step
Propagates(c) == tx[c].pc = "changed" /\ tx'[c].pc = "saveSeason"

\* The entry lists a propagation has just produced
PropagatedLists ==
  (IF creation.pc = "done" THEN {creation.seeded} ELSE {})
    \cup {tx[c].tasks : c \in {d \in clients : tx[d].pc = "saveSeason"}}

\* Every preceding code of the entry is the code of a completed entry
PrecedingEntriesCompleted(tasks, task) ==
  \A code \in Range(task.precedingTasks) :
    \E j \in 1..Len(tasks) : tasks[j].order = code /\ tasks[j].status = "completed"

\* The completion timestamps of the entry's preceding entries
PrecedingCompletions(tasks, task) ==
  {tasks[j].actualCompletion : j \in {k \in 1..Len(tasks) :
      tasks[k].order \in Range(task.precedingTasks)}}

\* C1: after date propagation, an entry with at least one preceding code has
\* a start iff every preceding entry is completed; the start is then the
\* maximum actualCompletion of the preceding entries and the end is the start
\* plus leadTime days.
C1_DependentEntryDates ==
  \A tasks \in PropagatedLists : \A i \in 1..Len(tasks) :
    Len(tasks[i].precedingTasks) > 0 =>
      /\ (tasks[i].start # Null) <=> PrecedingEntriesCompleted(tasks, tasks[i])
      /\ tasks[i].start # Null =>
           /\ tasks[i].start \in PrecedingCompletions(tasks, tasks[i])
           /\ \A t \in PrecedingCompletions(tasks, tasks[i]) : t <= tasks[i].start
           /\ tasks[i].end = tasks[i].start + tasks[i].leadTime * TicksPerDay

\* The entries completed in the list before keep their dates in the list after
CompletedEntriesKept(before, after) ==
  \A i \in 1..Len(before) :
    before[i].status = "completed" =>
      /\ after[i].start = before[i].start
      /\ after[i].end = before[i].end
      /\ after[i].actualCompletion = before[i].actualCompletion

\* C2: date propagation never changes the computed dates or the
\* actualCompletion of an entry whose status is completed before the call,
\* an entry completed with a null actualCompletion included.
C2_CompletedEntriesUntouched ==
  [][/\ Seeds => CompletedEntriesKept(creation.tasks, creation'.seeded)
     /\ \A c \in clients :
          Propagates(c) => CompletedEntriesKept(tx[c].tasks, tx'[c].tasks)]_vars

\* C3: once season creation has finished, an entry copied from a template
\* that was inactive is completed with null start and end, and an entry
\* copied from an active template is pending.
C3_SeededEntries ==
  creation.pc = "done" =>
    \A i \in 1..Len(creation.seeded) :
      IF templates[i].isActive
      THEN creation.seeded[i].status = "pending"
      ELSE /\ creation.seeded[i].status = "completed"
           /\ creation.seeded[i].start = Null
           /\ creation.seeded[i].end = Null

\* C4: after date propagation, an entry with no preceding code whose status
\* is not completed starts at the season's creation timestamp and ends
\* leadTime days later.
C4_RootEntryDates ==
  \A tasks \in PropagatedLists : \A i \in 1..Len(tasks) :
    Len(tasks[i].precedingTasks) = 0 /\ tasks[i].status # "completed" =>
      /\ tasks[i].start = season.createdAt
      /\ tasks[i].end = season.createdAt + tasks[i].leadTime * TicksPerDay

\* A task update has just propagated over a list holding a pending entry
\* without preceding codes, dated from a creation timestamp within a day
C4_Witness ==
  \E c \in clients :
    /\ tx[c].pc = "saveSeason"
    /\ season.createdAt % TicksPerDay # 0
    /\ \E i \in 1..Len(tx[c].tasks) :
         /\ Len(tx[c].tasks[i].precedingTasks) = 0
         /\ tx[c].tasks[i].status = "pending"
         /\ tx[c].tasks[i].leadTime > 1
         /\ tx[c].tasks[i].start = season.createdAt

\* The graph validator accepts the entry list: every entry's preceding codes
\* sort before its own code and no entry lies on a cycle
GraphAccepted(tasks) ==
  LET map == [o \in {tasks[i].order : i \in 1..Len(tasks)} |->
                tasks[TasksMapGet(tasks, o)].precedingTasks]
  IN \A i \in 1..Len(tasks) :
       /\ validatePrecedingOrderAlphabetical(tasks[i].order,
                                             tasks[i].precedingTasks).isValid
       /\ ~hasCircularDependency(tasks[i].order, tasks[i].precedingTasks,
                                 <<>>, map)

\* C9: over an entry list whose predecessor graph is acyclic and properly
\* ordered, the propagation ends on a pass that changed nothing, after at
\* most N + 5 passes (N the number of entries).
C9_QuiescenceWithinCeiling ==
  /\ creation.pc = "done" /\ GraphAccepted(creation.seeded) =>
       /\ ~creation.changedInIteration
       /\ creation.iterationCount <= Len(creation.seeded) + 5
  /\ \A c \in clients :
       tx[c].pc = "saveSeason" /\ GraphAccepted(tx[c].tasks) =>
         /\ ~tx[c].changedInIteration
         /\ tx[c].iterationCount <= Len(tx[c].tasks) + 5

\* A completion has just propagated over an accepted chain: a first pass set
\* the successor's start and a second pass changed nothing
C9_Witness ==
  \E c \in clients :
    /\ tx[c].pc = "saveSeason"
    /\ GraphAccepted(tx[c].tasks)
    /\ tx[c].iterationCount = 2
    /\ \E i \in 1..Len(tx[c].tasks) :
         /\ Len(tx[c].tasks[i].precedingTasks) > 0
         /\ tx[c].tasks[i].status = "pending"
         /\ tx[c].tasks[i].start # Null

\* C10: propagating again over a list a propagation produced, with the same
\* creation timestamp and no completion changed in between (the propagation
\* of a remarks-only update over the persisted list), changes no entry's
\* computed dates: its first pass changes nothing.
C10_PropagationIdempotent ==
  [][\A c \in clients :
       (/\ Propagates(c)
        /\ \A i \in 1..Len(tx[c].tasks) :
             tx[c].tasks[i].actualCompletion = snapshot.tasks[i].actualCompletion)
       => /\ \A i \in 1..Len(tx[c].tasks) :
               /\ tx'[c].tasks[i].start = tx[c].tasks[i].start
               /\ tx'[c].tasks[i].end = tx[c].tasks[i].end
          /\ tx'[c].iterationCount = 1
          /\ ~tx'[c].changedInIteration]_vars

\* A remarks-only update has just propagated over a persisted list in which
\* one entry is dated and another is not
C10_Witness ==
  \E c \in clients :
    /\ tx[c].pc = "saveSeason"
    /\ tx[c].logged = <<"UPDATE_REMARKS">>
    /\ tx[c].iterationCount = 1
    /\ \E i, j \in 1..Len(tx[c].tasks) :
         /\ tx[c].tasks[i].start # Null
         /\ tx[c].tasks[j].start = Null
         /\ tx[c].tasks[j].status = "pending"

\* C5: in every reachable state a season whose status is not Open has an
\* empty requireAttention, whatever requests led there.
C5_NonOpenSeasonHasNoAttention ==
  season.exists /\ season.status # "Open" => season.requireAttention = {}

\* Client c's task update, having changed something, returns in this step
Ends(c) == tx[c].pc \in {"saveSnapshot", "closing"} /\ tx'[c].pc = "done"

\* The number of activity entries of the action in a log
CountOf(logged, action) ==
  Cardinality({k \in 1..Len(logged) : logged[k] = action})

\* C6: when a task update that changed something returns, every entry of
\* the snapshot is completed and the season it loaded was not Closed, the
\* season is Closed with an empty requireAttention and the update has logged
\* one automatic status change.
C6_AutoClosure ==
  [][\A c \in clients :
       (/\ Ends(c)
        /\ tx[c].loadedSeason.status # "Closed"
        /\ \A i \in 1..Len(snapshot'.tasks) : snapshot'.tasks[i].status = "completed")
       => /\ season'.status = "Closed"
          /\ season'.requireAttention = {}
          /\ CountOf(tx'[c].logged, "UPDATE_STATUS") = 1]_vars

\* The update that completed the last pending entry has returned: the season
\* is Closed and the closure is logged after the completion; another entry
\* was completed by its template being inactive
C6_Witness ==
  \E c \in clients :
    /\ tx[c].pc = "done"
    /\ tx[c].logged = <<"UPDATE_COMPLETION_DATE", "UPDATE_STATUS">>
    /\ season.status = "Closed"
    /\ \E i \in 1..Len(snapshot.tasks) :
         /\ snapshot.tasks[i].status = "completed"
         /\ snapshot.tasks[i].actualCompletion = Null

\* The departments the claim derives from an entry list
DerivedAttention(tasks) ==
  {d \in TemplateDepartments :
     \E i \in 1..Len(tasks) :
       /\ tasks[i].status = "pending"
       /\ d \in tasks[i].responsible
       /\ PrecedingEntriesCompleted(tasks, tasks[i])}

\* C8: the attention computation sets requireAttention to exactly the
\* departments responsible for some pending entry whose preceding entries
\* are all completed, whatever the value was before.
C8_AttentionIsDerivedSet ==
  /\ creation.pc = "done" =>
       creation.requireAttention = DerivedAttention(creation.seeded)
  /\ \A c \in clients :
       tx[c].pc = "saveSeason" =>
         tx[c].seasonDoc.requireAttention = DerivedAttention(tx[c].tasks)

\* A task update has just computed an attention set that holds none of the
\* departments the season listed before
C8_Witness ==
  \E c \in clients :
    /\ tx[c].pc = "saveSeason"
    /\ tx[c].loadedSeason.requireAttention = {"PD"}
    /\ tx[c].seasonDoc.requireAttention = {"IT"}

\* Client c's task update is received and runs up to its first await on the
\* season in this step
Requests(c) == tx[c].pc = "idle" /\ tx'[c].pc # "idle"

\* The request reached the completion block: the season is Open, the entry
\* exists and the caller may update it
ReachesCompletionBlock(t) ==
  ~(t.pc = "done" /\ t.result \in {"NotFound", "SeasonNotOpen", "NotAuthorized"})

\* C7: a completion change (a provided date on another day than the stored
\* one) is applied iff (the entry is not completed or the actor is admin or
\* planner) and every preceding entry is completed; otherwise it is rejected
\* with Forbidden (completed entry, non-elevated actor) or ValidationError
\* (a preceding entry not completed, a preceding code without entry
\* included), and the entry keeps its actualCompletion and status.
C7_CompletionChangeDecision ==
  [][\A c \in clients :
       Requests(c) /\ ReachesCompletionBlock(tx'[c]) =>
         LET req == tx'[c].req
             i == CHOOSE k \in 1..Len(snapshot.tasks) :
                    snapshot.tasks[k].order = req.taskId
             task == snapshot.tasks[i]
             isChange ==
               /\ req.actualCompletion \in Times
               /\ (task.actualCompletion = Null
                     \/ req.actualCompletion \div TicksPerDay
                          # task.actualCompletion \div TicksPerDay)
             mayChange == task.status # "completed" \/ req.role \in {"Admin", "Planner"}
             ready == PrecedingEntriesCompleted(snapshot.tasks, task)
             applied ==
               /\ tx'[c].pc = "changed"
               /\ tx'[c].tasks[i].actualCompletion = req.actualCompletion
               /\ tx'[c].tasks[i].status = "completed"
         IN isChange =>
              /\ applied <=> (mayChange /\ ready)
              /\ ~mayChange => tx'[c].pc = "done" /\ tx'[c].result = "Forbidden"
              /\ mayChange /\ ~ready =>
                   tx'[c].pc = "done" /\ tx'[c].result = "ValidationError"
              /\ ~applied => snapshot'.tasks[i] = snapshot.tasks[i]]_vars

\* This step answers a status-change request (PUT /api/seasons/:id/status)
AnswersStatusChange == reply'.kind = "updateSeasonStatus"

\* C18: a status-change request that moves the season away from Open leaves
\* requireAttention empty, and one that moves it to Open sets
\* requireAttention to the set derived from the snapshot's current entries,
\* whatever requireAttention held before.
C18_StatusChangeAttention ==
  [][AnswersStatusChange /\ season'.status # season.status =>
       /\ season.status = "Open" => season'.requireAttention = {}
       /\ season'.status = "Open" =>
            season'.requireAttention = DerivedAttention(snapshot.tasks)]_vars

\* A status change has just reopened a season whose second entry is ready:
\* requireAttention holds that entry's departments again
C18_Witness ==
  /\ reply.kind = "updateSeasonStatus"
  /\ reply.result = "ok"
  /\ season.status = "Open"
  /\ season.requireAttention = {"PD", "QA"}
  /\ \E i \in 1..Len(snapshot.tasks) :
       /\ snapshot.tasks[i].status = "pending"
       /\ Len(snapshot.tasks[i].precedingTasks) > 0

\* C19: every status change the status-change operation performs leaves Open
\* or enters Open, and Open to Open is the only self-transition it bars: it
\* reports a no-op, leaves the season as it is and logs no activity entry.
C19_TransitionRelation ==
  [][AnswersStatusChange =>
       /\ season'.status # season.status =>
            season.status = "Open" \/ season'.status = "Open"
       /\ reply'.result = "AlreadySet" =>
            /\ season.status = "Open"
            /\ season' = season
            /\ reply'.logged = <<>>]_vars

\* a sorts strictly before b when it is shorter, or as long and
\* lexicographically smaller
LengthLexLess(a, b) ==
  \/ Len(CodeUnits(a)) < Len(CodeUnits(b))
  \/ /\ Len(CodeUnits(a)) = Len(CodeUnits(b))
     /\ StringLess(CodeUnits(a), CodeUnits(b))

\* C11: the ordering check rejects a preceding-code list exactly when it
\* holds a code that does not sort strictly before the candidate under
\* "shorter codes first, equal-length codes lexicographically", and the
\* offending codes it returns are exactly those codes.
C11_OrderingCheck ==
  reply.checks.ordered =>
    LET offending == {p \in Range(reply.checks.precedingTasks) :
                        ~LengthLexLess(p, reply.checks.order)}
    IN /\ reply.checks.isValid <=> offending = {}
       /\ reply.checks.invalidTasks = offending

\* C12: after any sequence of template requests, every stored template's
\* preceding codes sort strictly before its own order code under the
\* (length, then lexicographic) ordering.
C12_StoredTemplatesOrdered ==
  \A i \in 1..Len(templates) :
    \A p \in Range(templates[i].defaultPrecedingTasks) :
      LengthLexLess(p, templates[i].order)

\* C13: after any sequence of template requests, every preceding code
\* stored on a template is the order code of a stored template.
C13_NoDanglingPrecedingCodes ==
  \A i \in 1..Len(templates) :
    Range(templates[i].defaultPrecedingTasks) \subseteq TemplateOrders(templates)

\* The codes one precedingCodes edge away from the codes of the set, over
\* the codes the map holds
EdgeTargets(map, codes) ==
  UNION {Range(map[n]) \cap DOMAIN map : n \in codes \cap DOMAIN map}

\* The codes reachable from the set by one edge or more
RECURSIVE ReachableFrom(_, _, _)
ReachableFrom(map, frontier, seen) ==
  LET next == EdgeTargets(map, frontier) \ seen
  IN IF next = {} THEN seen ELSE ReachableFrom(map, next, seen \cup next)

\* Following the edges from the candidate leads back to a code on the path:
\* the candidate, or a code reachable from it, reaches itself
ReachesCodeOnPath(map, candidate) ==
  \E n \in {candidate} \cup ReachableFrom(map, {candidate}, {}) :
    n \in ReachableFrom(map, {n}, {})

\* C14: the cycle check, started at the candidate with an empty path over
\* the stored templates with the candidate's entry overlaid, returns true
\* exactly when following precedingCodes edges from the candidate reaches a
\* code already on the path, and false otherwise.
C14_CycleCheck ==
  reply.checks.cycleChecked =>
    (reply.checks.circular <=>
       ReachesCodeOnPath(reply.checks.allTemplatesMap, reply.checks.order))

\* A request was refused for a cycle that runs through another stored
\* template and not through the candidate's own preceding codes alone
C14_Witness ==
  /\ reply.checks.cycleChecked
  /\ reply.checks.circular
  /\ reply.result = "Circular"
  /\ reply.checks.order \notin Range(reply.checks.precedingTasks)

\* The typed errors of a task update: a missing season, snapshot or entry, a
\* completed entry amended without privilege, a malformed date, a preceding
\* entry that is not completed
TypedErrors == {"NotFound", "Forbidden", "ValidationError", "InvalidDate"}

\* Client c's task update fails with a typed error in this step
FailsTyped(c) ==
  /\ tx[c].pc \in {"idle", "changed"}
  /\ tx'[c].pc = "done"
  /\ tx'[c].result \in TypedErrors

\* C15: a task update that fails with NotFound, Forbidden or ValidationError
\* leaves the persisted snapshot (every entry's remarks, actualCompletion,
\* status and computed dates) and the persisted season as they were before
\* the request, also when the request carried a valid remarks change.
C15_FailedUpdatePersistsNothing ==
  [][\A c \in clients :
       FailsTyped(c) => snapshot' = snapshot /\ season' = season]_vars

\* An update has failed on its completion date after its remarks change was
\* applied in memory and logged: the stored entry keeps its old remarks
C15_Witness ==
  \E c \in clients :
    /\ tx[c].pc = "done"
    /\ tx[c].result \in {"Forbidden", "ValidationError"}
    /\ tx[c].logged = <<"UPDATE_REMARKS">>
    /\ \E i \in 1..Len(snapshot.tasks) :
         /\ snapshot.tasks[i].order = tx[c].req.taskId
         /\ snapshot.tasks[i].remarks # Trim(tx[c].req.remarks)

\* Client c's task update returns in this step, out of its writes
LeavesWrites(c) ==
  /\ tx[c].pc \in {"saveSeason", "saveSnapshot", "closing"}
  /\ tx'[c].pc = "done"

\* The season the update was to leave: the attention it computed and, when
\* every entry is completed and the season is not Closed, the closure
SeasonToCommit(t) ==
  IF (\A i \in 1..Len(t.tasks) : t.tasks[i].status = "completed")
       /\ t.seasonDoc.status # "Closed"
  THEN [t.seasonDoc EXCEPT !.status = "Closed", !.requireAttention = {}]
  ELSE t.seasonDoc

\* C16: a task update is all-or-nothing with respect to persistence: when it
\* has returned, either the snapshot's entries, the season's requireAttention
\* and, on automatic closure, the season's status are all persisted, or the
\* snapshot and the season are what they were when it loaded them, also when
\* one of its writes failed.
C16_AllOrNothing ==
  [][\A c \in clients :
       LeavesWrites(c) =>
         LET t == tx[c]
             all == /\ snapshot'.tasks = t.tasks
                    /\ season'.status = SeasonToCommit(t).status
                    /\ season'.requireAttention = SeasonToCommit(t).requireAttention
             none == /\ snapshot'.tasks = t.loadedTasks
                     /\ season'.status = t.loadedSeason.status
                     /\ season'.requireAttention = t.loadedSeason.requireAttention
         IN all \/ none]_vars

\* The request changes nothing of the entry: its remarks are absent or the
\* stored ones, its completion date is absent or on the stored date's day
ChangesNothing(task, req) ==
  /\ req.remarks = NoRemarks \/ req.remarks = task.remarks
  /\ \/ req.actualCompletion = Null
     \/ /\ req.actualCompletion \in Times
        /\ task.actualCompletion \in Times
        /\ req.actualCompletion \div TicksPerDay
             = task.actualCompletion \div TicksPerDay

\* The update takes the request for a change of the entry
\* (taskProgression.js lines 148 and 173)
TakenForChange(task, req) ==
  RemarksChange(task, req.remarks) \/ CompletionChange(task, req.actualCompletion)

\* C17: a task update that changes nothing (remarks absent or equal to the
\* stored ones, completion date absent or on the stored date's day) reports
\* "no changes" and has no side effect: it runs no propagation and no
\* attention refresh, sends no notification, logs no activity entry and
\* writes nothing; and once an update has succeeded, the same update sent
\* again is such a no-op.
C17_NoChangeIsNoOp ==
  [][\A c \in clients :
       LET req == tx'[c].req
           i == FindTask(snapshot'.tasks, req.taskId)
       IN /\ (/\ Requests(c)
               /\ ReachesCompletionBlock(tx'[c])
               /\ ChangesNothing(snapshot.tasks[i], req))
             => /\ tx'[c].pc = "done"
                /\ tx'[c].result = "NoChanges"
                /\ tx'[c].logged = <<>>
                /\ tx'[c].notified = {}
                /\ snapshot' = snapshot
                /\ season' = season
          /\ (Ends(c) /\ tx'[c].result = "ok")
             => ~TakenForChange(snapshot'.tasks[i], req)]_vars

\* The entries the claim has notified when the entry at index i was updated:
\* the pending entries that list it and whose other preceding entries are
\* completed, when it became completed in this update; none otherwise
ClaimedNotifications(before, after, i) ==
  IF before[i].status = "completed" \/ after[i].status # "completed" THEN {}
  ELSE {after[k].order : k \in {n \in 1..Len(after) :
          /\ after[n].status = "pending"
          /\ after[i].order \in Range(after[n].precedingTasks)
          /\ \A code \in Range(after[n].precedingTasks) \ {after[i].order} :
               \E j \in 1..Len(after) :
                 after[j].order = code /\ after[j].status = "completed"}}

\* C20: a task update sends a "task now actionable" notification for an
\* entry E iff the updated entry became completed in this update, E is
\* pending, E lists the updated entry as a preceding code and E's other
\* preceding entries are completed; an update of an entry that was completed
\* before it sends none.
C20_NotifiedEntries ==
  [][\A c \in clients :
       Propagates(c) =>
         tx'[c].notified =
           ClaimedNotifications(snapshot.tasks, tx'[c].tasks,
                                FindTask(snapshot.tasks, tx'[c].req.taskId))]_vars

\* Client c's task update saves its snapshot in this step
SavesSnapshot(c) == tx[c].pc = "saveSnapshot" /\ tx'[c].pc # "saveSnapshot"

\* Client c's task update saves its season in this step
SavesSeason(c) == tx[c].pc = "saveSeason" /\ tx'[c].pc # "saveSeason"

BothCompletionsFinished ==
  /\ \A c \in clients :
       /\ tx[c].pc = "done"
       /\ tx[c].result = "ok"
       /\ CountOf(tx[c].logged, "UPDATE_COMPLETION_DATE") = 1
  /\ \A c, d \in clients : c # d => tx[c].req.taskId # tx[d].req.taskId

\* C27: under every interleaving of two task updates that complete two
\* different entries of the same Open season, once both have finished the
\* persisted season agrees with the persisted snapshot: it is Closed when
\* every entry is completed, and otherwise its requireAttention is the set
\* derived from the persisted entries.
C27_SeasonAgreesWithSnapshot ==
  BothCompletionsFinished =>
    IF \A i \in 1..Len(snapshot.tasks) : snapshot.tasks[i].status = "completed"
    THEN season.status = "Closed"
    ELSE season.requireAttention = DerivedAttention(snapshot.tasks)

\* Client c's task update takes a step other than sending its response
StepsUpdate(c) == tx[c].pc # "done" /\ tx'[c] # tx[c]

\* C30: while the season is On-Hold, Closed or Canceled no step of a task
\* update changes the snapshot, the season or the activity log: a request
\* that finds the season not Open is rejected, and a request whose season
\* left Open after its status check writes nothing and closes nothing.
C30_NotOpenSeasonIsFrozen ==
  [][\A c \in clients :
       StepsUpdate(c) /\ season.exists /\ season.status # "Open" =>
         /\ snapshot' = snapshot
         /\ season' = season
         /\ tx'[c].logged = tx[c].logged
         /\ Requests(c) => tx'[c].pc = "done" /\ tx'[c].result = "SeasonNotOpen"]_vars

\* C28: an activity entry for a task change (UPDATE_REMARKS or
\* UPDATE_COMPLETION_DATE) is written only for a change the same update
\* persists: an update that aborts with Forbidden, ValidationError or a
\* missing season has written no activity entry.
C28_AbortedUpdateLogsNothing ==
  [][\A c \in clients :
       FailsTyped(c) =>
         /\ CountOf(tx'[c].logged, "UPDATE_REMARKS") = 0
         /\ CountOf(tx'[c].logged, "UPDATE_COMPLETION_DATE") = 0]_vars

\* C29: every department a template may list as responsible is a value the
\* season's requireAttention may hold, so saving the attention set derived
\* from a snapshot never fails validation: the season creation stores the
\* set it derived, and no task update ends on a season validation error.
C29_AttentionAlwaysValidates ==
  /\ creation.pc = "done" =>
       creation.requireAttention \subseteq SeasonDepartments
  /\ \A c \in clients :
       tx[c].pc = "done" => tx[c].result # "SeasonValidationError"

\* This step answers a delete-season request
AnswersDelete == reply'.kind = "deleteSeason"

\* C22: a season is never deleted while its snapshot holds an entry: such a
\* delete request is rejected and leaves the season and its snapshot in
\* place, so no snapshot belongs to a season that exists no more.
C22_SeasonWithEntriesIsKept ==
  [][/\ (AnswersDelete /\ snapshot.exists /\ Len(snapshot.tasks) > 0) =>
          /\ reply'.result # "ok"
          /\ season' = season
          /\ snapshot' = snapshot
     /\ snapshot'.exists => season'.exists]_vars

\* This step answers a template request
AnswersTemplateRequest ==
  reply'.kind \in {"createTemplate", "updateTemplate", "toggleActive", "deleteTemplate"}

\* C23: a template request served after the season was created (create,
\* update, rename, toggle-active, delete) leaves the snapshot as it is: no
\* entry's order, responsible set, preceding codes, lead time, status or
\* dates changes.
C23_TemplateRequestsKeepSnapshot ==
  [][AnswersTemplateRequest /\ snapshot.exists => snapshot' = snapshot]_vars

\* A template was renamed and another one deactivated after the season was
\* created: the snapshot still holds an entry under the old code, and an
\* entry made from an active template whose template is inactive now
C23_Witness ==
  /\ snapshot.exists
  /\ reply.kind \in {"updateTemplate", "toggleActive"}
  /\ reply.result = "ok"
  /\ \E k \in 1..Len(snapshot.tasks) :
       snapshot.tasks[k].order \notin TemplateOrders(templates)
  /\ \E k \in 1..Len(snapshot.tasks), i \in 1..Len(templates) :
       /\ templates[i].order = snapshot.tasks[k].order
       /\ snapshot.tasks[k].sourceTemplateActiveOnCreation
       /\ snapshot.tasks[k].status = "pending"
       /\ ~templates[i].isActive

\* The pass ceiling of a propagation over the list (line 20)
MaxIterations(tasks) == Len(tasks) + IterationSlack

\* C26: over every entry list, one with a cycle or with a preceding code
\* that no entry carries included, the propagation stops because a pass
\* changed nothing, after at most 2 passes; the ceiling N + 5 is not reached
\* and the "exceeded max iterations" error is not logged.
C26_TwoPassesSuffice ==
  /\ creation.pc = "done" =>
       /\ ~creation.changedInIteration
       /\ creation.iterationCount <= 2
       /\ creation.iterationCount < MaxIterations(creation.seeded)
  /\ \A c \in clients :
       tx[c].pc = "saveSeason" =>
         /\ ~tx[c].changedInIteration
         /\ tx[c].iterationCount <= 2
         /\ tx[c].iterationCount < MaxIterations(tx[c].tasks)

\* A completion has just propagated over a list whose graph the template
\* checks would refuse (a cycle, a missing code or a code out of order): the
\* first pass set a start, the second changed nothing
C26_Witness ==
  \E c \in clients :
    /\ tx[c].pc = "saveSeason"
    /\ ~GraphAccepted(tx[c].tasks)
    /\ tx[c].iterationCount = 2
    /\ \E i \in 1..Len(tx[c].tasks) :
         /\ tx[c].tasks[i].start # Null
         /\ tx[c].loadedTasks[i].start = Null

\* C24: in every reachable state of the snapshot, every entry that has an
\* actualCompletion has all its preceding entries in status completed:
\* entries are completed in topological order.
C24_CompletedInTopologicalOrder ==
  snapshot.exists =>
    \A i \in 1..Len(snapshot.tasks) :
      snapshot.tasks[i].actualCompletion # Null =>
        PrecedingEntriesCompleted(snapshot.tasks, snapshot.tasks[i])

\* The update that completed an entry with a preceding code has returned:
\* the entry is stored with its completion date, after its preceding entry
\* was completed by an earlier update
C24_Witness ==
  \E c \in clients, i \in 1..Len(snapshot.tasks) :
    /\ tx[c].pc = "done"
    /\ tx[c].result = "ok"
    /\ tx[c].req.taskId = snapshot.tasks[i].order
    /\ snapshot.tasks[i].actualCompletion # Null
    /\ \E code \in Range(snapshot.tasks[i].precedingTasks) :
         \E j \in 1..Len(snapshot.tasks) :
           /\ snapshot.tasks[j].order = code
           /\ snapshot.tasks[j].actualCompletion # Null

\* C25: completion is monotonic: over task updates and status changes an
\* entry whose status is completed never returns to pending or blocked, an
\* actualCompletion that was set never becomes null again, and every entry
\* that has an actualCompletion has status completed.
C25_CompletionIsMonotonic ==
  [][snapshot.exists =>
       \A i \in 1..Len(snapshot.tasks) :
         /\ snapshot.tasks[i].status = "completed" =>
              snapshot'.tasks[i].status = "completed"
         /\ snapshot.tasks[i].actualCompletion # Null =>
              snapshot'.tasks[i].actualCompletion # Null
         /\ snapshot'.tasks[i].actualCompletion # Null =>
              snapshot'.tasks[i].status = "completed"]_vars

\* The second client's update of B, which read the snapshot while A was
\* pending, was saved after the first client's completion of A: the season
\* lists A's department again, and the stored entry A is still completed
C25_Witness ==
  /\ tx["c2"].pc = "done"
  /\ tx["c2"].result = "ok"
  /\ tx["c2"].req.taskId = "B"
  /\ season.status = "Open"
  /\ season.requireAttention = {"PD"}
  /\ \E i \in 1..Len(snapshot.tasks) :
       /\ snapshot.tasks[i].order = "A"
       /\ snapshot.tasks[i].status = "completed"
       /\ snapshot.tasks[i].actualCompletion # Null

====
